---------------------------- MODULE Spec2Model ----------------------------
(***************************************************************************)
(* Memorice (memory / concentration) with an A* agent: memorice.py.        *)
(*                                                                         *)
(* The model holds the live MemoriceGame object, the executor loop of      *)
(* main() and one run of astar_plan, one loop iteration per step.          *)
(* Python values are kept in their shapes: a position is the tuple <<r,c>>,*)
(* a tuple or list is a sequence, a dict is the sequence of its            *)
(* <<key, value>> items in insertion order, None is the empty option <<>>  *)
(* and a present value v is <<v>>.                                         *)
(***************************************************************************)
EXTENDS Integers, Sequences, FiniteSets, TLC

VARIABLES
    game,             \* the MemoriceGame object: board, matched, moves, seen
    pc,               \* where the caller is: "calls", "loop", "astar", "planned", "done"
    planned_actions,  \* main's pending plan
    turn_result,      \* what the last apply_turn returned, <<>> before any call
    initial_state,    \* astar_plan's argument
    max_expansions,   \* astar_plan's argument
    frontier,         \* astar_plan's heap, in push order
    came_from,        \* astar_plan's came_from dict
    gscore,           \* astar_plan's gscore dict
    expansions,       \* astar_plan's expansion counter
    pops,             \* number of heappop calls of the current run
    succ_calls,       \* number of successors_state calls of the current run
    plan              \* what astar_plan returned: [is_none, path]

vars == <<game, pc, planned_actions, turn_result, initial_state, max_expansions,
          frontier, came_from, gscore, expansions, pops, succ_calls, plan>>

astar_vars == <<initial_state, max_expansions, frontier, came_from, gscore,
                expansions, pops, succ_calls, plan>>

---------------------------------------------------------------------------
(* Parameters *)

\* MemoriceGame(size): the side of the board.  main() plays BOARD_SIZE = 6;
\* the model plays the smallest board the constructor can build.
size == 2

\* successors_state's branching cap.
K == 6

\* main()'s budget for astar_plan.
MainMaxExpansions == 150000

\* Direct apply_turn calls made on the game before the executor loop runs.
MaxCalls == 2

\* The small budgets astar_plan is called with besides main()'s: 0..MaxBudget.
MaxBudget == 3

---------------------------------------------------------------------------
(* Sequences as Python lists *)

Range(s) == {s[i] : i \in DOMAIN s}

Min2(a, b) == IF a <= b THEN a ELSE b

\* s[:n]
Take(s, n) == SubSeq(s, 1, Min2(n, Len(s)))

\* The concatenation of the sequences of a sequence.
Flatten(ss) ==
    LET f[i \in 0..Len(ss)] == IF i = 0 THEN <<>> ELSE f[i - 1] \o ss[i]
    IN f[Len(ss)]

\* All the orders a finite set can be listed in.
Perms(S) ==
    {s \in [1..Cardinality(S) -> S] : \A x \in S : \E i \in DOMAIN s : s[i] = x}

\* Python's tuple order on positions.
PosLess(p, q) == p[1] < q[1] \/ (p[1] = q[1] /\ p[2] < q[2])

\* Python's order on tuples of positions.
PosSeqLess(a, b) ==
    \/ \E i \in 1..Min2(Len(a), Len(b)) :
          /\ \A j \in 1..(i - 1) : a[j] = b[j]
          /\ PosLess(a[i], b[i])
    \/ /\ Len(a) < Len(b)
       /\ \A j \in 1..Len(a) : a[j] = b[j]

\* Python's order on (value, tuple of positions).
ItemLess(x, y) == x[1] < y[1] \/ (x[1] = y[1] /\ PosSeqLess(x[2], y[2]))

\* Python's order on tuples of (value, tuple of positions).
ItemSeqLess(a, b) ==
    \/ \E i \in 1..Min2(Len(a), Len(b)) :
          /\ \A j \in 1..(i - 1) : a[j] = b[j]
          /\ ItemLess(a[i], b[i])
    \/ /\ Len(a) < Len(b)
       /\ \A j \in 1..Len(a) : a[j] = b[j]

\* sorted(s) for positions: a stable insertion sort.
InsertPos(s, p) ==
    LET k == Cardinality({i \in DOMAIN s : ~PosLess(p, s[i])})
    IN SubSeq(s, 1, k) \o <<p>> \o SubSeq(s, k + 1, Len(s))

SortPos(s) ==
    LET f[i \in 0..Len(s)] == IF i = 0 THEN <<>> ELSE InsertPos(f[i - 1], s[i])
    IN f[Len(s)]

\* sorted(s) for (value, tuple of positions) items.
InsertItem(s, x) ==
    LET k == Cardinality({i \in DOMAIN s : ~ItemLess(x, s[i])})
    IN SubSeq(s, 1, k) \o <<x>> \o SubSeq(s, k + 1, Len(s))

SortItems(s) ==
    LET f[i \in 0..Len(s)] == IF i = 0 THEN <<>> ELSE InsertItem(f[i - 1], s[i])
    IN f[Len(s)]

---------------------------------------------------------------------------
(* MemoriceGame *)

total_pairs_of(sz) == (sz * sz) \div 2

\* _generate_board: the values 1..total_pairs, each twice, in any order,
\* cut into rows.
Boards ==
    LET n == size * size
        vals == {v \in [1..n -> 1..total_pairs_of(size)] :
                    \A x \in 1..total_pairs_of(size) :
                        Cardinality({i \in 1..n : v[i] = x}) = 2}
    IN {[r \in 1..size |-> [c \in 1..size |-> v[(r - 1) * size + c]]] : v \in vals}

\* __init__
NewGame(b) ==
    [size |-> size, total_pairs |-> total_pairs_of(size), board |-> b,
     matched |-> {}, moves |-> 0, seen |-> <<>>]

value_at(g, pos) == g.board[pos[1] + 1][pos[2] + 1]

\* all_positions: row by row.
all_positions(g) ==
    [i \in 1..(g.size * g.size) |-> <<(i - 1) \div g.size, (i - 1) % g.size>>]

is_matched(g, pos) == pos \in g.matched

unmatched_positions(g) == SelectSeq(all_positions(g), LAMBDA p : p \notin g.matched)

\* The keys of the seen dict.
SeenKeys(seen) == {seen[i][1] : i \in DOMAIN seen}

\* seen[pos] = v: a key already present keeps its place.
DictSet(seen, pos, v) ==
    IF pos \in SeenKeys(seen)
    THEN [i \in DOMAIN seen |-> IF seen[i][1] = pos THEN <<pos, v>> ELSE seen[i]]
    ELSE Append(seen, <<pos, v>>)

\* seen.pop(pos, None)
DictPop(seen, pos) == SelectSeq(seen, LAMBDA e : e[1] # pos)


\* Remember without the test that the position is unmatched.
Remember_Always(g, seen, pos) == DictSet(seen, pos, value_at(g, pos))

\* The two memory writes of apply_turn.
Remember(g, seen, pos) ==
    IF pos \notin g.matched THEN DictSet(seen, pos, value_at(g, pos)) ELSE seen


\* IsPair without the test that the two positions differ.
IsPair_SameCard(g, pos1, pos2) == value_at(g, pos1) = value_at(g, pos2)

\* Whether apply_turn finds a pair.
IsPair(g, pos1, pos2) == value_at(g, pos1) = value_at(g, pos2) /\ pos1 # pos2


\* apply_turn counting the cards flipped, two a call, instead of the turns.
apply_turn_CountFlips(g, pos1, pos2) ==
    LET seen1 == Remember(g, Remember(g, g.seen, pos1), pos2)
    IN IF IsPair(g, pos1, pos2)
       THEN [g EXCEPT !.moves = g.moves + 2,
                      !.matched = g.matched \cup {pos1, pos2},
                      !.seen = DictPop(DictPop(seen1, pos1), pos2)]
       ELSE [g EXCEPT !.moves = g.moves + 2, !.seen = seen1]

\* apply_turn: the game after the call.
apply_turn(g, pos1, pos2) ==
    LET seen1 == Remember(g, Remember(g, g.seen, pos1), pos2)
    IN IF IsPair(g, pos1, pos2)
       THEN [g EXCEPT !.moves = g.moves + 1,
                      !.matched = g.matched \cup {pos1, pos2},
                      !.seen = DictPop(DictPop(seen1, pos1), pos2)]
       ELSE [g EXCEPT !.moves = g.moves + 1, !.seen = seen1]

\* apply_turn: the value returned.
apply_turn_returns(g, pos1, pos2) == IsPair(g, pos1, pos2)

is_finished(g) == Cardinality(g.matched) \div 2 = g.total_pairs

\* A dict value -> list, as its items in insertion order: mp[val].append(pos).
GroupAppend(mp, val, pos) ==
    IF \E i \in DOMAIN mp : mp[i][1] = val
    THEN [i \in DOMAIN mp |-> IF mp[i][1] = val
                              THEN <<val, Append(mp[i][2], pos)>> ELSE mp[i]]
    ELSE Append(mp, <<val, <<pos>>>>)

\* seen_pairs: value -> the seen, unmatched positions holding it.
seen_pairs(g) ==
    LET f[i \in 0..Len(g.seen)] ==
            IF i = 0 THEN <<>>
            ELSE IF g.seen[i][1] \notin g.matched
                 THEN GroupAppend(f[i - 1], g.seen[i][2], g.seen[i][1])
                 ELSE f[i - 1]
    IN f[Len(g.seen)]

---------------------------------------------------------------------------
(* Search states: <<matched, seen>> *)

\* A set listed in some order, as Python iterates it.
RECURSIVE SetAsSeq(_)
SetAsSeq(S) ==
    IF S = {} THEN <<>>
    ELSE LET x == CHOOSE y \in S : TRUE IN <<x>> \o SetAsSeq(S \ {x})

\* The (value, sorted positions) items of a memory.
SortedItems(seen) == [i \in DOMAIN seen |-> <<seen[i][1], SortPos(seen[i][2])>>]


\* state_to_key that sorts the items and not the positions inside them.
state_to_key_Shallow(state) == <<SortPos(state[1]), SortItems(state[2])>>

state_to_key(state) ==
    <<SortPos(state[1]), SortItems(SortedItems(state[2]))>>


\* heuristic_state counting cards where it should count pairs.
heuristic_state_Cards(state, total_pairs) == 2 * total_pairs - Len(state[1])

heuristic_state(state, total_pairs) ==
    LET matched_count == Len(state[1]) \div 2
    IN total_pairs - matched_count

\* {val: list(poses) for val, poses in seen}: a repeated key keeps its first
\* place and its last value.
DictOf(seen) ==
    LET f[i \in 0..Len(seen)] ==
            IF i = 0 THEN <<>> ELSE DictSet(f[i - 1], seen[i][1], seen[i][2])
    IN f[Len(seen)]


\* Reveal that overwrites the list of v instead of appending to it.
Reveal_Overwrite(mp, v, p) ==
    IF \E i \in DOMAIN mp : mp[i][1] = v
    THEN [i \in DOMAIN mp |-> IF mp[i][1] = v THEN <<v, <<p>>>> ELSE mp[i]]
    ELSE Append(mp, <<v, <<p>>>>)

\* new_seen.setdefault(v, []); if p not in new_seen[v]: new_seen[v].append(p)
Reveal(mp, v, p) ==
    IF \E i \in DOMAIN mp : mp[i][1] = v
    THEN [i \in DOMAIN mp |->
            IF mp[i][1] = v /\ p \notin Range(mp[i][2])
            THEN <<v, Append(mp[i][2], p)>> ELSE mp[i]]
    ELSE Append(mp, <<v, <<p>>>>)


\* Forget that leaves the memory as it was.
Forget_Nothing(mp, p1, p2) == mp

\* The positions p1 and p2 taken out of every list, the empty lists dropped.
Forget(mp, p1, p2) ==
    SelectSeq([i \in DOMAIN mp |->
                  <<mp[i][1], SelectSeq(mp[i][2], LAMBDA x : x \notin {p1, p2})>>],
              LAMBDA e : e[2] # <<>>)


\* ForgetValue that keeps the emptied list.
ForgetValue_KeepEmpty(mp, v, c, d) ==
    [i \in DOMAIN mp |->
        IF mp[i][1] = v
        THEN <<v, SelectSeq(mp[i][2], LAMBDA x : x \notin {c, d})>>
        ELSE mp[i]]

\* new_seen[v] = [x for x in new_seen[v] if x not in {c, d}]; del when empty.
ForgetValue(mp, v, c, d) ==
    SelectSeq([i \in DOMAIN mp |->
                  IF mp[i][1] = v
                  THEN <<v, SelectSeq(mp[i][2], LAMBDA x : x \notin {c, d})>>
                  ELSE mp[i]],
              LAMBDA e : e[1] # v \/ e[2] # <<>>)

\* The child state written by every branch: both parts sorted.
ChildState(new_matched, new_seen) ==
    <<SortPos(SetAsSeq(new_matched)), SortItems(SortedItems(new_seen))>>



\* MatchTriples whose child takes every known pair at once.
MatchTriples_All(matched_set, seen_map, i) ==
    LET poses == seen_map[i][2]
        available == SelectSeq(poses, LAMBDA p : p \notin matched_set)
        known == UNION {Range(seen_map[k][2]) \ matched_set :
                           k \in {n \in DOMAIN seen_map : Len(seen_map[n][2]) >= 2}}
    IN IF Len(poses) >= 2 /\ Len(available) >= 2
       THEN LET p1 == available[1]
                p2 == available[2]
            IN << << <<"match", <<p1, p2>>>>,
                     ChildState(matched_set \cup known, Forget(seen_map, p1, p2)),
                     1 >> >>
       ELSE <<>>

\* MatchTriples whose new_matched starts empty instead of as a copy.
MatchTriples_Fresh(matched_set, seen_map, i) ==
    LET poses == seen_map[i][2]
        available == SelectSeq(poses, LAMBDA p : p \notin matched_set)
    IN IF Len(poses) >= 2 /\ Len(available) >= 2
       THEN LET p1 == available[1]
                p2 == available[2]
            IN << << <<"match", <<p1, p2>>>>,
                     ChildState({p1, p2}, Forget(seen_map, p1, p2)),
                     1 >> >>
       ELSE <<>>

\* Branch 1, one remembered value: the Match triple, or nothing.
MatchTriples(matched_set, seen_map, i) ==
    LET poses == seen_map[i][2]
        available == SelectSeq(poses, LAMBDA p : p \notin matched_set)
    IN IF Len(poses) >= 2 /\ Len(available) >= 2
       THEN LET p1 == available[1]
                p2 == available[2]
            IN << << <<"match", <<p1, p2>>>>,
                     ChildState(matched_set \cup {p1, p2}, Forget(seen_map, p1, p2)),
                     1 >> >>
       ELSE <<>>


\* TurnTriple with the comparison of the two values left out.
TurnTriple_NoCompare(g, matched_set, seen_map, c, d) ==
    LET v_c == value_at(g, c)
        v_d == value_at(g, d)
        revealed == Reveal(Reveal(seen_map, v_c, c), v_d, d)
    IN << <<"turn", <<c, d>>>>,
          ChildState(matched_set \cup {c, d},
                     ForgetValue(ForgetValue(revealed, v_c, c, d), v_d, c, d)),
          1 >>

\* Branch 2, one pair (c, d): the Turn triple.
TurnTriple(g, matched_set, seen_map, c, d) ==
    LET v_c == value_at(g, c)
        v_d == value_at(g, d)
        revealed == Reveal(Reveal(seen_map, v_c, c), v_d, d)
    IN IF v_c = v_d /\ c # d
       THEN << <<"turn", <<c, d>>>>,
               ChildState(matched_set \cup {c, d}, ForgetValue(revealed, v_c, c, d)),
               1 >>
       ELSE << <<"turn", <<c, d>>>>, ChildState(matched_set, revealed), 1 >>

\* Branch 2's candidates.
Candidates(state, g) ==
    LET matched_set == Range(state[1])
        seen_map == DictOf(state[2])
        unmatched == SelectSeq(all_positions(g), LAMBDA p : p \notin matched_set)
        remembered == UNION {Range(seen_map[i][2]) : i \in DOMAIN seen_map}
        unseen == SelectSeq(unmatched,
                     LAMBDA p : p \notin SeenKeys(g.seen) /\ p \notin remembered)
    IN Take(IF unseen = <<>> THEN unmatched ELSE unseen, K)


\* Others with the second inner loop left without partners.
Others_None(state, g, c) == <<>>

\* Branch 2, the second inner loop's partners of c.
Others(state, g, c) ==
    LET matched_set == Range(state[1])
        unmatched == SelectSeq(all_positions(g), LAMBDA p : p \notin matched_set)
    IN Take(Take(SelectSeq(unmatched, LAMBDA p : p # c), K), K)

\* Branch 2, the first inner loop's partners: the remembered, unmatched positions.
SeenPositions(state) ==
    LET matched_set == Range(state[1])
        seen_map == DictOf(state[2])
    IN SelectSeq(Flatten([i \in DOMAIN seen_map |-> seen_map[i][2]]),
                 LAMBDA p : p \notin matched_set)


\* successors_state without the early return after branch 1.
successors_state_NoReturn(state, g) ==
    LET matched_set == Range(state[1])
        seen_map == DictOf(state[2])
        known == Flatten([i \in DOMAIN seen_map |->
                             MatchTriples(matched_set, seen_map, i)])
        candidates == Candidates(state, g)
        seen_positions == SeenPositions(state)
        ForCandidate(c) ==
            LET withSeen == SelectSeq(seen_positions, LAMBDA d : d # c)
                others == Others(state, g, c)
            IN [j \in DOMAIN withSeen |->
                    TurnTriple(g, matched_set, seen_map, c, withSeen[j])]
               \o [j \in DOMAIN others |->
                    TurnTriple(g, matched_set, seen_map, c, others[j])]
    IN known \o Flatten([i \in DOMAIN candidates |-> ForCandidate(candidates[i])])

successors_state(state, g) ==
    LET matched_set == Range(state[1])
        seen_map == DictOf(state[2])
        known == Flatten([i \in DOMAIN seen_map |->
                             MatchTriples(matched_set, seen_map, i)])
        candidates == Candidates(state, g)
        seen_positions == SeenPositions(state)
        ForCandidate(c) ==
            LET withSeen == SelectSeq(seen_positions, LAMBDA d : d # c)
                others == Others(state, g, c)
            IN [j \in DOMAIN withSeen |->
                    TurnTriple(g, matched_set, seen_map, c, withSeen[j])]
               \o [j \in DOMAIN others |->
                    TurnTriple(g, matched_set, seen_map, c, others[j])]
    IN IF known # <<>> THEN known
       ELSE Flatten([i \in DOMAIN candidates |-> ForCandidate(candidates[i])])

---------------------------------------------------------------------------
(* astar_plan *)

Node(f, g, state, parent, action) ==
    [f |-> f, g |-> g, state |-> state, parent |-> parent, action |-> action]

\* Python's order on search states, tuples of two tuples.
StateLess(s, t) ==
    PosSeqLess(s[1], t[1]) \/ (s[1] = t[1] /\ ItemSeqLess(s[2], t[2]))


\* NodeLess with f compared the wrong way round: the heap gives the largest f.
NodeLess_LargestF(n, m) ==
    \/ n.f > m.f
    \/ n.f = m.f /\ n.g < m.g
    \/ n.f = m.f /\ n.g = m.g /\ StateLess(n.state, m.state)

\* The order heapq keeps Nodes in: the namedtuple's fields from the left.  Two
\* nodes of one run never agree on f, g and state, so parent and action are
\* never compared.
NodeLess(n, m) ==
    \/ n.f < m.f
    \/ n.f = m.f /\ n.g < m.g
    \/ n.f = m.f /\ n.g = m.g /\ StateLess(n.state, m.state)


\* heappop as a queue that keeps insertion order among equal f.
HeapMin_Fifo(fr) ==
    CHOOSE i \in DOMAIN fr :
        \A j \in DOMAIN fr \ {i} : fr[i].f < fr[j].f \/ (fr[i].f = fr[j].f /\ i < j)

\* heappop: the place of the least node.
HeapMin(fr) == CHOOSE i \in DOMAIN fr : \A j \in DOMAIN fr \ {i} : NodeLess(fr[i], fr[j])

RemoveAt(s, i) == SubSeq(s, 1, i - 1) \o SubSeq(s, i + 1, Len(s))

\* d[k] = v on a dict kept as a function.
Put(d, k, v) == IF k \in DOMAIN d THEN [d EXCEPT ![k] = v] ELSE d @@ (k :> v)

\* The walk back along came_from, reversed.
RECURSIVE ReconstructPath(_, _)
ReconstructPath(cf, cur_key) ==
    IF cf[cur_key].parent = <<>> THEN <<>>
    ELSE Append(ReconstructPath(cf, cf[cur_key].parent[1]), cf[cur_key].action)

\* Whether a successor improves on the recorded cost.
Improves(gs, new_key, tentative_g) ==
    new_key \notin DOMAIN gs \/ tentative_g < gs[new_key]

\* The for loop over succs: frontier, came_from and gscore after it.
Relax(succs, key, g, total_pairs, fr, cf, gs) ==
    LET f[i \in 0..Len(succs)] ==
            IF i = 0 THEN [fr |-> fr, cf |-> cf, gs |-> gs]
            ELSE LET prev == f[i - 1]
                     action == succs[i][1]
                     new_state == succs[i][2]
                     new_key == state_to_key(new_state)
                     tentative_g == g + succs[i][3]
                 IN IF Improves(prev.gs, new_key, tentative_g)
                    THEN [fr |-> Append(prev.fr,
                                    Node(tentative_g + heuristic_state(new_state, total_pairs),
                                         tentative_g, new_state, <<key>>, action)),
                          cf |-> Put(prev.cf, new_key, [parent |-> <<key>>, action |-> action]),
                          gs |-> Put(prev.gs, new_key, tentative_g)]
                    ELSE prev
    IN f[Len(succs)]


\* IsGoal with the comparison loosened.
IsGoal_AtMost(state, total_pairs) == Len(state[1]) \div 2 <= total_pairs

\* The goal test of the popped node.
IsGoal(state, total_pairs) == Len(state[1]) \div 2 = total_pairs



\* OverBudget with the test left out: the search never gives up.
OverBudget_Never(n, budget) == FALSE

\* OverBudget one expansion late.
OverBudget_Late(n, budget) == n > budget + 1

\* Whether the budget is spent, the counter already incremented.
OverBudget(n, budget) == n > budget

NoPlan == [is_none |-> TRUE, path |-> <<>>]
SomePlan(path) == [is_none |-> FALSE, path |-> path]

\* No astar_plan call is running and none has returned.
NoRun ==
    /\ initial_state = <<>>
    /\ max_expansions = 0
    /\ frontier = <<>>
    /\ came_from = <<>>
    /\ gscore = <<>>
    /\ expansions = 0
    /\ pops = 0
    /\ succ_calls = 0
    /\ plan = NoPlan

---------------------------------------------------------------------------
(* main *)

\* The snapshot main() plans from.
Snapshot(g) ==
    <<SortPos(SetAsSeq(g.matched)), SortItems(SortedItems(seen_pairs(g)))>>

\* The budgets astar_plan is called with.
Budgets == (0..MaxBudget) \cup {MainMaxExpansions}

---------------------------------------------------------------------------
(* greedy_policy *)

\* The first remembered value with two or more positions, as a list of its
\* items: empty when there is none.
KnownPairs(g) == SelectSeq(seen_pairs(g), LAMBDA e : Len(e[2]) >= 2)


\* GreedyUnseen drawing the first card from every unmatched position.
GreedyUnseen_AnyUnmatched(g) ==
    SelectSeq(all_positions(g), LAMBDA p : ~is_matched(g, p))

\* The list the first random.choice draws from.
GreedyUnseen(g) ==
    LET unmatched == SelectSeq(all_positions(g), LAMBDA p : ~is_matched(g, p))
        unseen == SelectSeq(unmatched, LAMBDA p : p \notin SeenKeys(g.seen))
    IN IF unseen = <<>> THEN unmatched ELSE unseen


\* GreedyRemaining with the first card left in the list.
GreedyRemaining_KeepFirst(g, p1) ==
    SelectSeq(all_positions(g), LAMBDA p : ~is_matched(g, p))

\* The list the second random.choice draws from.
GreedyRemaining(g, p1) ==
    SelectSeq(SelectSeq(all_positions(g), LAMBDA p : ~is_matched(g, p)),
              LAMBDA p : p # p1)


\* GreedyPartners without the comparison of the values.
GreedyPartners_AnyValue(g, p1) ==
    SelectSeq(g.seen, LAMBDA e : e[1] # p1 /\ e[1] \notin g.matched)

\* The seen entries that hold p1's value at another, unmatched position.
GreedyPartners(g, p1) ==
    SelectSeq(g.seen, LAMBDA e : /\ e[2] = value_at(g, p1)
                                 /\ e[1] # p1
                                 /\ e[1] \notin g.matched)

\* greedy_policy, c1 and c2 being what the two random.choice calls return.
greedy_policy(g, c1, c2) ==
    IF KnownPairs(g) # <<>>
    THEN <<"turn", <<KnownPairs(g)[1][2][1], KnownPairs(g)[1][2][2]>>>>
    ELSE IF GreedyPartners(g, c1) # <<>>
         THEN <<"turn", <<c1, GreedyPartners(g, c1)[1][1]>>>>
         ELSE IF GreedyRemaining(g, c1) = <<>>
              THEN <<"turn", <<c1, c1>>>>
              ELSE <<"turn", <<c1, c2>>>>

\* Every action greedy_policy can return on g.
GreedyActions(g) ==
    UNION {{greedy_policy(g, c1, c2) :
               c2 \in IF GreedyRemaining(g, c1) = <<>> THEN {c1}
                      ELSE Range(GreedyRemaining(g, c1))} :
           c1 \in Range(GreedyUnseen(g))}

---------------------------------------------------------------------------
(* Steps *)

Init ==
    /\ game \in {NewGame(b) : b \in Boards}
    /\ pc = "calls"
    /\ planned_actions = <<>>
    /\ turn_result = <<>>
    /\ NoRun

\* apply_turn called on the game with any two positions of the board.
CallApplyTurn ==
    /\ pc = "calls"
    /\ game.moves < MaxCalls
    /\ \E pos1 \in Range(all_positions(game)), pos2 \in Range(all_positions(game)) :
          /\ game' = apply_turn(game, pos1, pos2)
          /\ turn_result' = <<apply_turn_returns(game, pos1, pos2)>>
    /\ UNCHANGED <<pc, planned_actions>>
    /\ UNCHANGED astar_vars

\* The executor loop of main() starts on the game as it stands.
MainStart ==
    /\ pc = "calls"
    /\ pc' = "loop"
    /\ UNCHANGED <<game, planned_actions, turn_result>>
    /\ UNCHANGED astar_vars

\* main(): no plan is pending, so astar_plan is called on the snapshot; the
\* step ends with astar_plan about to enter its while loop.
MainPlan ==
    /\ pc = "loop"
    /\ ~is_finished(game)
    /\ planned_actions = <<>>
    /\ \E budget \in Budgets :
          LET s0 == Snapshot(game)
              start_h == heuristic_state(s0, game.total_pairs)
          IN /\ initial_state' = s0
             /\ max_expansions' = budget
             /\ frontier' = <<Node(start_h, 0, s0, <<>>, <<>>)>>
             /\ came_from' = (state_to_key(s0) :> [parent |-> <<>>, action |-> <<>>])
             /\ gscore' = (state_to_key(s0) :> 0)
             /\ expansions' = 0
             /\ pops' = 0
             /\ succ_calls' = 0
             /\ plan' = NoPlan
    /\ pc' = "astar"
    /\ UNCHANGED <<game, planned_actions, turn_result>>

\* One iteration of astar_plan's while loop, or its exit.
AstarIterate ==
    /\ pc = "astar"
    /\ IF frontier = <<>>
       THEN /\ plan' = NoPlan
            /\ pc' = "planned"
            /\ UNCHANGED <<frontier, came_from, gscore, expansions, pops, succ_calls>>
       ELSE LET i == HeapMin(frontier)
                node == frontier[i]
                rest == RemoveAt(frontier, i)
                key == state_to_key(node.state)
            IN /\ pops' = pops + 1
               /\ IF IsGoal(node.state, game.total_pairs)
                  THEN /\ plan' = SomePlan(ReconstructPath(came_from, key))
                       /\ pc' = "planned"
                       /\ frontier' = rest
                       /\ UNCHANGED <<came_from, gscore, expansions, succ_calls>>
                  ELSE /\ expansions' = expansions + 1
                       /\ IF OverBudget(expansions + 1, max_expansions)
                          THEN /\ plan' = NoPlan
                               /\ pc' = "planned"
                               /\ frontier' = rest
                               /\ UNCHANGED <<came_from, gscore, succ_calls>>
                          ELSE LET r == Relax(successors_state(node.state, game), key,
                                              node.g, game.total_pairs,
                                              rest, came_from, gscore)
                               IN /\ frontier' = r.fr
                                  /\ came_from' = r.cf
                                  /\ gscore' = r.gs
                                  /\ succ_calls' = succ_calls + 1
                                  /\ UNCHANGED <<plan, pc>>
    /\ UNCHANGED <<game, planned_actions, turn_result, initial_state, max_expansions>>

\* astar_plan's locals are gone once main() holds its result.
ForgetRun ==
    /\ initial_state' = <<>>
    /\ max_expansions' = 0
    /\ frontier' = <<>>
    /\ came_from' = <<>>
    /\ gscore' = <<>>
    /\ expansions' = 0
    /\ pops' = 0
    /\ succ_calls' = 0
    /\ plan' = NoPlan

\* main(): astar_plan returned a plan.
MainUsePlan ==
    /\ pc = "planned"
    /\ ~plan.is_none
    /\ planned_actions' = plan.path
    /\ pc' = "loop"
    /\ ForgetRun
    /\ UNCHANGED <<game, turn_result>>

\* main(): astar_plan returned None, so greedy_policy gives the one action.
MainFallback ==
    /\ pc = "planned"
    /\ plan.is_none
    /\ \E action \in GreedyActions(game) : planned_actions' = <<action>>
    /\ pc' = "loop"
    /\ ForgetRun
    /\ UNCHANGED <<game, turn_result>>

\* main(): the first pending action is applied to the game.
MainExecute ==
    /\ pc = "loop"
    /\ ~is_finished(game)
    /\ planned_actions # <<>>
    /\ LET action == Head(planned_actions)
           p1 == action[2][1]
           p2 == action[2][2]
       IN /\ game' = apply_turn(game, p1, p2)
          /\ turn_result' = <<apply_turn_returns(game, p1, p2)>>
    /\ planned_actions' = Tail(planned_actions)
    /\ UNCHANGED pc
    /\ UNCHANGED astar_vars

\* main(): every pair is found and the loop ends.
MainFinish ==
    /\ pc = "loop"
    /\ is_finished(game)
    /\ pc' = "done"
    /\ UNCHANGED <<game, planned_actions, turn_result>>
    /\ UNCHANGED astar_vars

Next ==
    \/ CallApplyTurn
    \/ MainStart
    \/ MainPlan
    \/ AstarIterate
    \/ MainUsePlan
    \/ MainFallback
    \/ MainExecute
    \/ MainFinish

Spec == Init /\ [][Next]_vars

---------------------------------------------------------------------------
(* The search graph, for the properties below *)

\* Every pair of the board is matched in s.
GoalState(s, g) == Range(s[1]) = Range(all_positions(g))

\* The states successors_state returns for s.
Children(s, g) == {tr[2] : tr \in Range(successors_state(s, g))}

\* The states reachable from the states of todo through successors_state.
RECURSIVE ReachFrom(_, _, _)
ReachFrom(todo, done, g) ==
    IF todo = {} THEN done
    ELSE LET more == UNION {Children(s, g) : s \in todo}
         IN ReachFrom(more \ (done \cup todo), done \cup todo, g)

Reach(s0, g) == ReachFrom({s0}, {}, g)

\* The least number of transitions from s to a goal state; -1 when none leads there.
RECURSIVE Dist(_, _)
Dist(s, g) ==
    IF GoalState(s, g) THEN 0
    ELSE LET ds == {Dist(c, g) : c \in Children(s, g)} \ {-1}
         IN IF ds = {} THEN -1
            ELSE 1 + (CHOOSE d \in ds : \A e \in ds : d <= e)

\* The game after the actions of a plan are applied in order.
RECURSIVE Replay(_, _)
Replay(g, actions) ==
    IF actions = <<>> THEN g
    ELSE Replay(apply_turn(g, Head(actions)[2][1], Head(actions)[2][2]), Tail(actions))

\* astar_plan has just been called: nothing is popped yet.
AtCall == pc = "astar" /\ pops = 0

\* astar_plan has just returned.
AtReturn == pc = "planned"

---------------------------------------------------------------------------
(* Properties *)

\* C1 (plan validity): when astar_plan, called on the snapshot of the live
\* game, returns a plan, applying the plan's actions in order with apply_turn
\* from that live game ends in a game whose is_finished() is true.
C1_PlanValidity ==
    (AtReturn /\ ~plan.is_none) => is_finished(Replay(game, plan.path))

\* A two-turn plan is returned for a game that remembers cards and has no pair yet.
C1_Witness ==
    /\ AtReturn
    /\ ~plan.is_none
    /\ Len(plan.path) = 2
    /\ game.seen # <<>>
    /\ game.matched = {}
    /\ is_finished(Replay(game, plan.path))


\* C2 (a next move is always produced): the step of main() that takes
\* astar_plan's result leaves a non-empty pending plan: the returned plan,
\* which is not empty, or exactly one greedy_policy action when astar_plan
\* returned None; an empty plan is returned only for an initial state that
\* is a goal state.
C2_NextMove ==
    [][pc = "planned" =>
          /\ planned_actions' # <<>>
          /\ plan.is_none => /\ Len(planned_actions') = 1
                             /\ planned_actions'[1] \in GreedyActions(game)
          /\ ~plan.is_none => planned_actions' = plan.path
          /\ (~plan.is_none /\ plan.path = <<>>) => GoalState(initial_state, game)]_vars

\* On a fresh game the fallback's single action is pending.
C2_Witness ==
    /\ pc = "loop"
    /\ game.moves = 0
    /\ ~is_finished(game)
    /\ Len(planned_actions) = 1


\* C3 (the fallback's action is usable): on every live game that is not
\* finished, every action greedy_policy can return names two positions of
\* the board, both unmatched, and distinct unless exactly one unmatched
\* position remains.
C3_FallbackUsable ==
    ~is_finished(game) =>
        \A a \in GreedyActions(game) :
            /\ a[1] = "turn"
            /\ a[2][1] \in Range(all_positions(game)) \ game.matched
            /\ a[2][2] \in Range(all_positions(game)) \ game.matched
            /\ a[2][1] # a[2][2] \/ Len(unmatched_positions(game)) = 1

\* greedy_policy is about to be called on a game with a matched pair and a
\* remembered card, and its random choices matter.
C3_Witness ==
    /\ AtReturn
    /\ plan.is_none
    /\ ~is_finished(game)
    /\ game.matched # {}
    /\ game.seen # <<>>
    /\ Cardinality(GreedyActions(game)) >= 1


\* C4 (budget exhaustion is a failure value): astar_plan returns None as
\* soon as its expansion counter exceeds max_expansions without a goal
\* popped: the counter never passes max_expansions + 1, the run that reaches
\* it has returned None, with max_expansions = 0 and an unmatched pair left
\* the result is None, and successors are never generated for more than
\* max_expansions nodes.
C4_BudgetExhaustion ==
    pc \in {"astar", "planned"} =>
        /\ expansions <= max_expansions + 1
        /\ expansions > max_expansions => (AtReturn /\ plan.is_none)
        /\ (AtReturn /\ max_expansions = 0 /\ ~GoalState(initial_state, game))
              => (plan.is_none /\ succ_calls = 0)
        /\ succ_calls <= max_expansions

\* A run with a budget of 1 generated successors once and then gave up.
C4_Witness ==
    /\ AtReturn
    /\ max_expansions = 1
    /\ expansions = 2
    /\ succ_calls = 1
    /\ plan.is_none


\* C5 (admissibility): for every search state reachable through
\* successors_state from the snapshot astar_plan is called on, a goal state
\* is reachable and heuristic_state is at most the least number of turns
\* to reach one.
C5_Admissible ==
    AtCall =>
        \A s \in Reach(initial_state, game) :
            /\ Dist(s, game) >= 0
            /\ heuristic_state(s, game.total_pairs) <= Dist(s, game)
            /\ heuristic_state(s, game.total_pairs)
                  = game.total_pairs - Cardinality(Range(s[1])) \div 2

\* A reachable state other than the snapshot remembers cards, has a pair
\* matched and one left, and needs one more turn.
C5_Witness ==
    /\ AtCall
    /\ \E s \in Reach(initial_state, game) :
          /\ s # initial_state
          /\ s[1] # <<>>
          /\ heuristic_state(s, game.total_pairs) = 1
          /\ Dist(s, game) = 1
    /\ \E s \in Reach(initial_state, game) :
          /\ s[2] # <<>>
          /\ heuristic_state(s, game.total_pairs) = 2
          /\ Dist(s, game) = 2


\* The invariant of a search state: no position is both matched and
\* remembered, and every remembered list is non-empty and without duplicates.
StateInvariant(s) ==
    /\ \A i \in DOMAIN s[2] : Range(s[2][i][2]) \cap Range(s[1]) = {}
    /\ \A i \in DOMAIN s[2] :
          /\ s[2][i][2] # <<>>
          /\ Cardinality(Range(s[2][i][2])) = Len(s[2][i][2])

\* C6 (search state invariant): the snapshot astar_plan is called on
\* satisfies the invariant, and so does every state successors_state
\* returns for a state reachable from it.
C6_StateInvariant ==
    AtCall =>
        /\ StateInvariant(initial_state)
        /\ \A s \in Reach(initial_state, game) :
              \A tr \in Range(successors_state(s, game)) : StateInvariant(tr[2])

\* A Turn that matches a pair while another card stays remembered.
C6_Witness ==
    /\ AtCall
    /\ \E tr \in Range(successors_state(initial_state, game)) :
          /\ tr[1][1] = "turn"
          /\ Len(tr[2][1]) = Len(initial_state[1]) + 2
          /\ tr[2][2] # <<>>


\* C7 (monotonic matched set): for every state reachable from the snapshot
\* and every triple successors_state returns for it, the child's matched
\* positions include the parent's.
C7_MatchedMonotonic ==
    AtCall =>
        \A s \in Reach(initial_state, game) :
            \A tr \in Range(successors_state(s, game)) :
                Range(s[1]) \subseteq Range(tr[2][1])

\* A parent with a matched pair has a Match child and, elsewhere, a parent
\* has a Turn child that matches nothing.
C7_Witness ==
    /\ AtCall
    /\ \E s \in Reach(initial_state, game) :
          \E tr \in Range(successors_state(s, game)) :
              /\ s[1] # <<>>
              /\ tr[1][1] = "match"
              /\ Range(s[1]) # Range(tr[2][1])
    /\ \E tr \in Range(successors_state(initial_state, game)) :
          /\ tr[1][1] = "turn"
          /\ tr[2][1] = initial_state[1]


\* The orders a list can be in.
PermsOfSeq(s) == {[i \in DOMAIN s |-> s[f[i]]] : f \in Perms(DOMAIN s)}

\* The memories that hold what mp holds, every list in any order.
InnerOrders(mp) ==
    LET choices(i) == {<<mp[i][1], q>> : q \in PermsOfSeq(mp[i][2])}
    IN {m \in [DOMAIN mp -> UNION {choices(i) : i \in DOMAIN mp}] :
           \A i \in DOMAIN mp : m[i] \in choices(i)}

\* The states that hold the live game's matched set and memory, in every
\* insertion order.
RawStates(g) ==
    {<<m, sn>> : m \in PermsOfSeq(SetAsSeq(g.matched)),
                 sn \in UNION {PermsOfSeq(x) : x \in InnerOrders(seen_pairs(g))}}

\* C8 (canonicalization): state_to_key is idempotent, gives one key to all
\* the states that hold the live game's matched set and memory in different
\* insertion orders, and every state successors_state returns is its own key.
C8_Canonical ==
    /\ \A r \in RawStates(game) :
          /\ state_to_key(state_to_key(r)) = state_to_key(r)
          /\ state_to_key(r) = state_to_key(<<SetAsSeq(game.matched), seen_pairs(game)>>)
    /\ AtCall =>
          \A s \in Reach(initial_state, game) :
              \A tr \in Range(successors_state(s, game)) :
                  state_to_key(tr[2]) = tr[2]

\* The game has a matched pair and remembers both cards of the other pair,
\* in an insertion order that is not the sorted one.
C8_Witness ==
    /\ game.matched # {}
    /\ \E i \in DOMAIN seen_pairs(game) :
          /\ Len(seen_pairs(game)[i][2]) = 2
          /\ SortPos(seen_pairs(game)[i][2]) # seen_pairs(game)[i][2]
    /\ Cardinality(RawStates(game)) >= 4


\* C9 (the plan is a shortest one): a plan astar_plan returns has the length
\* of a shortest path from the initial state to a goal state in the graph
\* of successors_state; for the board [[1,2],[2,1]] and the initial state
\* with nothing matched and nothing remembered it has exactly 2 actions.
C9_PlanMinimal ==
    (AtReturn /\ ~plan.is_none) =>
        /\ Len(plan.path) = Dist(initial_state, game)
        /\ (game.board = <<<<1, 2>>, <<2, 1>>>> /\ initial_state = <<<<>>, <<>>>>)
              => Len(plan.path) = 2

\* The plan for the board [[1,2],[2,1]] from the empty state is returned.
C9_Witness ==
    /\ AtReturn
    /\ ~plan.is_none
    /\ game.board = <<<<1, 2>>, <<2, 1>>>>
    /\ initial_state = <<<<>>, <<>>>>
    /\ Len(plan.path) = 2
    /\ plan.path[1] = <<"turn", <<<<0, 0>>, <<1, 1>>>>>>


\* The matched set is made of whole pairs: an even number of positions of
\* the board, each with another matched position of the same value.
WholePairs(g) ==
    /\ Cardinality(g.matched) % 2 = 0
    /\ g.matched \subseteq Range(all_positions(g))
    /\ \A p \in g.matched :
          \E q \in g.matched : q # p /\ value_at(g, q) = value_at(g, p)

\* C10 (live matched set): through any sequence of apply_turn calls, with
\* any positions, game.matched has even cardinality and is made of whole
\* pairs of equal-valued positions, and no step takes a position out of it.
C10_LiveMatched ==
    [][/\ WholePairs(game)
       /\ WholePairs(game')
       /\ game.matched \subseteq game'.matched]_vars

\* A pair was matched and the next call, on matched positions only,
\* returned False and changed nothing but the move counter.
C10_Witness ==
    /\ pc = "calls"
    /\ game.moves = 2
    /\ Cardinality(game.matched) = 2
    /\ game.seen = <<>>
    /\ turn_result = <<FALSE>>


\* C11 (live memory): through any sequence of apply_turn calls no position
\* is both in game.seen and in game.matched, and every entry of game.seen
\* maps a position of the board, held once, to the board's value there.
C11_LiveMemory ==
    /\ \A i \in DOMAIN game.seen :
          /\ game.seen[i][1] \notin game.matched
          /\ game.seen[i][1] \in Range(all_positions(game))
          /\ game.seen[i][2] = value_at(game, game.seen[i][1])
    /\ Cardinality(SeenKeys(game.seen)) = Len(game.seen)

\* The last call matched a pair while a card seen before stays remembered.
C11_Witness ==
    /\ turn_result = <<TRUE>>
    /\ game.moves = 2
    /\ Cardinality(game.matched) = 2
    /\ Len(game.seen) = 1


\* The positions a search state remembers under value v.
MemPositions(s, v) == UNION {Range(s[2][i][2]) : i \in {j \in DOMAIN s[2] : s[2][j][1] = v}}

\* The values a search state remembers.
MemValues(s) == {s[2][i][1] : i \in DOMAIN s[2]}

\* The values remembered at two or more unmatched positions.
KnownValues(s) ==
    {v \in MemValues(s) : Cardinality(MemPositions(s, v) \ Range(s[1])) >= 2}

\* C12 (known pairs first): for a reachable search state that remembers some
\* value at two or more unmatched positions, successors_state returns Match
\* actions only, exactly one for each such value; the child of each has
\* exactly the two positions more in matched and no longer remembers them,
\* the rest of the memory kept.
C12_KnownPairsFirst ==
    AtCall =>
        \A s \in Reach(initial_state, game) :
            KnownValues(s) # {} =>
                LET succs == successors_state(s, game)
                IN /\ Len(succs) = Cardinality(KnownValues(s))
                   /\ \A v \in KnownValues(s) :
                         Cardinality({j \in DOMAIN succs :
                             {succs[j][1][2][1], succs[j][1][2][2]}
                                 \subseteq MemPositions(s, v)}) = 1
                   /\ \A j \in DOMAIN succs :
                         LET p1 == succs[j][1][2][1]
                             p2 == succs[j][1][2][2]
                             child == succs[j][2]
                         IN /\ succs[j][1][1] = "match"
                            /\ succs[j][3] = 1
                            /\ p1 # p2
                            /\ {p1, p2} \cap Range(s[1]) = {}
                            /\ Range(child[1]) = Range(s[1]) \cup {p1, p2}
                            /\ Len(child[1]) = Len(s[1]) + 2
                            /\ \A v \in MemValues(s) \cup MemValues(child) :
                                  MemPositions(child, v) = MemPositions(s, v) \ {p1, p2}

\* The snapshot remembers both pairs of the board: two Match actions.
C12_Witness ==
    /\ AtCall
    /\ Cardinality(KnownValues(initial_state)) = 2
    /\ Len(successors_state(initial_state, game)) = 2
    /\ \E s \in Reach(initial_state, game) :
          s[1] # <<>> /\ Cardinality(KnownValues(s)) = 1


\* Every position a search state remembers.
MemAll(s) == UNION {Range(s[2][i][2]) : i \in DOMAIN s[2]}

\* The Turn triples of a successors list.
TurnIndices(succs) == {j \in DOMAIN succs : succs[j][1][1] = "turn"}

\* C13 (Turn semantics): for every Turn(c, d) that successors_state returns
\* for a reachable search state, if the board shows the same value at c and d
\* the child has both in matched and remembers neither; otherwise the child's
\* matched is the parent's, c and d are remembered under their board values,
\* and every entry the parent remembered is kept.
C13_TurnSemantics ==
    AtCall =>
        \A s \in Reach(initial_state, game) :
            LET succs == successors_state(s, game)
            IN \A j \in TurnIndices(succs) :
                  LET c == succs[j][1][2][1]
                      d == succs[j][1][2][2]
                      child == succs[j][2]
                  IN IF value_at(game, c) = value_at(game, d)
                     THEN /\ Range(child[1]) = Range(s[1]) \cup {c, d}
                          /\ {c, d} \subseteq Range(child[1])
                          /\ {c, d} \cap MemAll(child) = {}
                     ELSE /\ child[1] = s[1]
                          /\ c \in MemPositions(child, value_at(game, c))
                          /\ d \in MemPositions(child, value_at(game, d))
                          /\ \A v \in MemValues(s) :
                                MemPositions(s, v) \subseteq MemPositions(child, v)
                          /\ MemAll(child) = MemAll(s) \cup {c, d}

\* Both cases happen for one parent that already remembers a card: a Turn
\* that matches and a Turn that adds to a remembered value's list.
C13_Witness ==
    /\ AtCall
    /\ \E s \in Reach(initial_state, game) :
          LET succs == successors_state(s, game)
          IN /\ s[2] # <<>>
             /\ \E j \in TurnIndices(succs) :
                   /\ value_at(game, succs[j][1][2][1]) = value_at(game, succs[j][1][2][2])
                   /\ Len(succs[j][2][1]) = Len(s[1]) + 2
             /\ \E j \in TurnIndices(succs) :
                   /\ value_at(game, succs[j][1][2][1]) # value_at(game, succs[j][1][2][2])
                   /\ \E i \in DOMAIN succs[j][2][2] : Len(succs[j][2][2][i][2]) = 2


\* C14 (one pair per transition): every successor of a reachable search
\* state has the parent's matched positions or exactly two more, and
\* heuristic_state drops by at most the cost 1 of the transition.
C14_OnePairPerTransition ==
    AtCall =>
        \A s \in Reach(initial_state, game) :
            LET succs == successors_state(s, game)
                h(x) == heuristic_state(x, game.total_pairs)
            IN \A j \in DOMAIN succs :
                  LET child == succs[j][2]
                  IN /\ Range(s[1]) \subseteq Range(child[1])
                     /\ Len(child[1]) \in {Len(s[1]), Len(s[1]) + 2}
                     /\ Cardinality(Range(child[1])) = Len(child[1])
                     /\ succs[j][3] = 1
                     /\ h(s) <= succs[j][3] + h(child)
                     /\ h(child) <= h(s)

\* One parent with a successor that matches a pair (h one less) and a
\* successor that matches nothing (h the same), and a parent with two
\* known pairs whose Match children take one pair each.
C14_Witness ==
    /\ AtCall
    /\ \E s \in Reach(initial_state, game) :
          LET succs == successors_state(s, game)
              h(x) == heuristic_state(x, game.total_pairs)
          IN /\ \E j \in DOMAIN succs : h(succs[j][2]) = h(s) - 1
             /\ \E j \in DOMAIN succs : h(succs[j][2]) = h(s)
    /\ \E s \in Reach(initial_state, game) :
          /\ Cardinality(KnownValues(s)) = 2
          /\ \A j \in DOMAIN successors_state(s, game) :
                Len(successors_state(s, game)[j][2][1]) = Len(s[1]) + 2


\* The actions of a successors list, in order.
ActionsOf(succs) == [j \in DOMAIN succs |-> succs[j][1]]

\* C15 (blind exploration pairs only unseen cards): in the exploration branch,
\* for each candidate c the second inner loop pairs c with at most K other
\* unmatched positions, none of them remembered in the state, so that no
\* Turn(c, d) appears twice in the list successors_state returns.
C15_BlindPartnersUnseen ==
    AtCall =>
        \A s \in Reach(initial_state, game) :
            KnownValues(s) = {} =>
                LET candidates == Candidates(s, game)
                    actions == ActionsOf(successors_state(s, game))
                IN /\ \A i \in DOMAIN candidates :
                         LET others == Others(s, game, candidates[i])
                         IN /\ Len(others) <= K
                            /\ \A j \in DOMAIN others :
                                  /\ others[j] # candidates[i]
                                  /\ others[j] \notin Range(s[1])
                                  /\ others[j] \notin MemAll(s)
                   /\ \A j, k \in DOMAIN actions :
                         actions[j] = actions[k] => j = k


\* The least f on the frontier.
MinF(fr) == CHOOSE f \in {fr[i].f : i \in DOMAIN fr} : \A i \in DOMAIN fr : f <= fr[i].f

\* C16 (frontier order): the node astar_plan pops next has the least f on the
\* frontier and, among the nodes of that f, is the one pushed first.
C16_FrontierFifo ==
    (pc = "astar" /\ frontier # <<>>) =>
        LET n == HeapMin(frontier)
        IN /\ frontier[n].f = MinF(frontier)
           /\ \A i \in DOMAIN frontier : frontier[i].f = MinF(frontier) => n <= i


\* C16, as the code has it: the node astar_plan pops next has the least f on
\* the frontier; among the nodes of that f it has the least g, and among those
\* the least state in tuple order.  No two frontier nodes agree on all three,
\* so the pop never compares parent or action.
C16_FrontierOrder ==
    (pc = "astar" /\ frontier # <<>>) =>
        LET n == HeapMin(frontier)
        IN /\ frontier[n].f = MinF(frontier)
           /\ \A i \in DOMAIN frontier \ {n} :
                 frontier[i].f = MinF(frontier) =>
                     \/ frontier[n].g < frontier[i].g
                     \/ /\ frontier[n].g = frontier[i].g
                        /\ StateLess(frontier[n].state, frontier[i].state)
           /\ \A i, j \in DOMAIN frontier :
                 (/\ frontier[i].f = frontier[j].f
                  /\ frontier[i].g = frontier[j].g
                  /\ frontier[i].state = frontier[j].state) => i = j

\* A pop that is not first in, first out: a node pushed before the popped one
\* has the same f and the same g.
C16_Witness ==
    /\ pc = "astar"
    /\ frontier # <<>>
    /\ \E i \in DOMAIN frontier :
          /\ i < HeapMin(frontier)
          /\ frontier[i].f = frontier[HeapMin(frontier)].f
          /\ frontier[i].g = frontier[HeapMin(frontier)].g


\* C17 (the budget bounds the pops): a run of astar_plan that ends in failure
\* has popped at most max_expansions nodes.
C17_PopsWithinBudget ==
    (AtReturn /\ plan.is_none) => pops <= max_expansions

\* C17, as the code has it: max_expansions bounds the nodes expanded, not the
\* nodes popped.  Throughout a run successors_state is called at most
\* max_expansions times and at most max_expansions + 1 nodes are popped; a
\* run that fails has popped exactly max_expansions + 1 nodes, the last of
\* them not expanded.
C17_ExpansionsWithinBudget ==
    /\ pc \in {"astar", "planned"} =>
          /\ succ_calls <= max_expansions
          /\ pops <= max_expansions + 1
          /\ pops \in {expansions, expansions + 1}
    /\ (AtReturn /\ plan.is_none) =>
          /\ pops = max_expansions + 1
          /\ expansions = max_expansions + 1
          /\ succ_calls = max_expansions

\* A run with budget 2 that failed: three pops, two expansions.
C17_Witness ==
    /\ AtReturn
    /\ plan.is_none
    /\ max_expansions = 2
    /\ pops = 3
    /\ succ_calls = 2


\* The unmatched positions the live game remembers under value v.
LiveRemembered(g, v) ==
    {g.seen[i][1] : i \in {j \in DOMAIN g.seen : g.seen[j][2] = v}} \ g.matched

\* The values the live game remembers at two or more unmatched positions.
LiveKnownValues(g) ==
    {v \in {g.seen[i][2] : i \in DOMAIN g.seen} : Cardinality(LiveRemembered(g, v)) >= 2}

\* apply_turn on the action matches: True, and exactly its two positions more.
TurnMatches(g, a) ==
    /\ apply_turn_returns(g, a[2][1], a[2][2])
    /\ a[2][1] # a[2][2]
    /\ apply_turn(g, a[2][1], a[2][2]).matched = g.matched \cup {a[2][1], a[2][2]}
    /\ {a[2][1], a[2][2]} \cap g.matched = {}

\* C18 (the fallback exploits memory): when the live game remembers a value
\* at two or more unmatched positions, greedy_policy returns a turn on two
\* remembered positions of one such value; otherwise, when the first card's
\* board value is remembered at another unmatched position, it returns the
\* turn of the first card with such a position.  In both cases apply_turn on
\* the action returns True and adds exactly the two positions to matched.
C18_FallbackExploitsMemory ==
    ~is_finished(game) =>
        IF LiveKnownValues(game) # {}
        THEN \A a \in GreedyActions(game) :
                /\ a[1] = "turn"
                /\ \E v \in LiveKnownValues(game) :
                      {a[2][1], a[2][2]} \subseteq LiveRemembered(game, v)
                /\ TurnMatches(game, a)
        ELSE \A c1 \in Range(GreedyUnseen(game)) :
                LiveRemembered(game, value_at(game, c1)) \ {c1} # {} =>
                    \A c2 \in Range(GreedyRemaining(game, c1)) :
                        LET a == greedy_policy(game, c1, c2)
                        IN /\ a[1] = "turn"
                           /\ a[2][1] = c1
                           /\ a[2][2] \in LiveRemembered(game, value_at(game, c1)) \ {c1}
                           /\ TurnMatches(game, a)

\* greedy_policy is about to be called on a game without a known pair, and
\* one of the cards it may draw first has its value remembered elsewhere
\* while another has not.
C18_Witness ==
    /\ AtReturn
    /\ plan.is_none
    /\ ~is_finished(game)
    /\ LiveKnownValues(game) = {}
    /\ \E c1 \in Range(GreedyUnseen(game)) :
          LiveRemembered(game, value_at(game, c1)) \ {c1} # {}
    /\ \E c1 \in Range(GreedyUnseen(game)) :
          LiveRemembered(game, value_at(game, c1)) \ {c1} = {}

\* greedy_policy is about to be called on a game that remembers a known pair.
C18_KnownPairReached ==
    ~(AtReturn /\ plan.is_none /\ ~is_finished(game) /\ LiveKnownValues(game) # {})


\* C19 (planning is read-only): the steps of astar_plan, with its calls of
\* successors_state, and the call of greedy_policy leave the live game as it
\* was; an expansion leaves the snapshot and every node still waiting on the
\* frontier as they were; the game changes only in a step that calls
\* apply_turn, and each such call adds exactly 1 to moves and leaves the
\* board alone.
C19_PlanningReadOnly ==
    [][/\ (pc \in {"astar", "planned"} \/ pc' = "astar") => game' = game
       /\ (pc = "astar" /\ pc' = "astar") =>
             /\ initial_state' = initial_state
             /\ \A i \in DOMAIN frontier \ {HeapMin(frontier)} :
                   \E j \in DOMAIN frontier' : frontier'[j] = frontier[i]
             /\ \A k \in DOMAIN gscore : k \in DOMAIN gscore'
       /\ turn_result' # turn_result \/ game' # game =>
             /\ pc \in {"calls", "loop"}
             /\ pc' = pc
             /\ turn_result' # <<>>
             /\ game'.moves = game.moves + 1
             /\ game'.board = game.board
             /\ game'.size = game.size
             /\ game'.total_pairs = game.total_pairs
       /\ game'.moves # game.moves => game'.moves = game.moves + 1]_vars

\* A run of astar_plan with several expansions has returned, and the game
\* still gives the snapshot the run started from, after two turns played.
C19_Witness ==
    /\ AtReturn
    /\ succ_calls >= 2
    /\ game.moves = 2
    /\ game.seen # <<>>
    /\ initial_state = Snapshot(game)


\* The live games of g's board and matched set: any unmatched cards
\* remembered (apply_turn(p, p) reveals the one card p), any number of moves.
LiveVariants(g) ==
    {[g EXCEPT !.seen = [i \in DOMAIN SetAsSeq(S) |->
                            <<SetAsSeq(S)[i], value_at(g, SetAsSeq(S)[i])>>],
               !.moves = m] :
        S \in SUBSET (Range(all_positions(g)) \ g.matched), m \in 0..MaxCalls}

\* Whether a list of positions is in row-major order, without repeats.
RowMajor(ps) == \A i, j \in DOMAIN ps : i < j => PosLess(ps[i], ps[j])

\* C20 (reproducible search): the exploration candidates are in row-major
\* order, and for a fixed board the list successors_state returns for a
\* search state is the same whatever the live game remembers and however
\* many moves it has played.
C20_Reproducible ==
    AtCall =>
        \A s \in Reach(initial_state, game) :
            /\ RowMajor(Candidates(s, game))
            /\ \A g2 \in LiveVariants(game) :
                  successors_state(s, g2) = successors_state(s, game)

\* What holds of C20 in main(): the states searched descend from the live
\* game's own snapshot and so remember or have matched every card the game
\* remembers; for them the list is the one an empty live memory gives, and
\* two live games of one snapshot, differing in the insertion order of seen
\* and in moves, get the same lists.
C20_SnapshotRuns ==
    AtCall =>
        /\ initial_state = Snapshot(game)
        /\ \A s \in Reach(initial_state, game) :
              /\ RowMajor(Candidates(s, game))
              /\ SeenKeys(game.seen) \subseteq MemAll(s) \cup Range(s[1])
              /\ successors_state(s, game)
                     = successors_state(s, [game EXCEPT !.seen = <<>>, !.moves = 0])
              /\ \A g2 \in LiveVariants(game) :
                    Snapshot(g2) = Snapshot(game) =>
                        successors_state(s, g2) = successors_state(s, game)


\* The keys on the came_from chain from the root to key, the root first.
RECURSIVE PathKeys(_, _)
PathKeys(cf, key) ==
    IF cf[key].parent = <<>> THEN <<key>>
    ELSE Append(PathKeys(cf, cf[key].parent[1]), key)

\* The states astar_plan predicted along the plan it returned: the chain of
\* the goal state it popped.
PredictedStates ==
    PathKeys(came_from, CHOOSE k \in DOMAIN came_from : GoalState(k, game))

\* C21 (execution tracks the prediction): when the plan astar_plan returned
\* is applied in order with apply_turn from the live game it was planned
\* from, after every action the snapshot of the live game is the state the
\* planner predicted for that step, and every Match action of the plan makes
\* apply_turn return True.
C21_ExecutionTracksPrediction ==
    (AtReturn /\ ~plan.is_none) =>
        /\ Len(PredictedStates) = Len(plan.path) + 1
        /\ PredictedStates[1] = initial_state
        /\ \A k \in 0..Len(plan.path) :
              Snapshot(Replay(game, SubSeq(plan.path, 1, k))) = PredictedStates[k + 1]
        /\ \A k \in 1..Len(plan.path) :
              plan.path[k][1] = "match" =>
                  LET before == Replay(game, SubSeq(plan.path, 1, k - 1))
                  IN apply_turn_returns(before, plan.path[k][2][1], plan.path[k][2][2])

\* A plan with a Match action followed by a Turn action was returned.
C21_Witness ==
    /\ AtReturn
    /\ ~plan.is_none
    /\ Len(plan.path) = 2
    /\ plan.path[1][1] = "match"
    /\ plan.path[2][1] = "turn"
    /\ Snapshot(Replay(game, SubSeq(plan.path, 1, 1))) = PredictedStates[2]


\* 2*|matched| + |remembered positions| of a search state.
Measure(s) == 2 * Len(s[1]) + Cardinality(MemAll(s))

\* C22 (the search cannot dead-end): every state reachable from the snapshot
\* that is not a goal has a successor, and every transition strictly
\* increases 2*|matched| + |remembered positions|; the frontier is never
\* empty while astar_plan runs; no more nodes are popped than states were
\* recorded, all of them reachable states; a run returns None only over
\* budget, and never when max_expansions is at least the number of reachable
\* states.
C22_NoDeadEnd ==
    /\ AtCall =>
          \A s \in Reach(initial_state, game) :
              /\ ~GoalState(s, game) => successors_state(s, game) # <<>>
              /\ \A c \in Children(s, game) : Measure(c) > Measure(s)
    /\ pc = "astar" =>
          /\ frontier # <<>>
          /\ pops <= Cardinality(DOMAIN gscore)
          /\ Len(frontier) + pops = Cardinality(DOMAIN gscore)
    /\ AtReturn =>
          /\ DOMAIN gscore \subseteq Reach(initial_state, game)
          /\ pops >= 1
          /\ pops <= Cardinality(Reach(initial_state, game))
          /\ plan.is_none => expansions > max_expansions
          /\ max_expansions >= Cardinality(Reach(initial_state, game)) => ~plan.is_none

\* A run with a budget of at least the number of reachable states has
\* returned a plan after popping four nodes, its frontier not empty.
C22_Witness ==
    /\ AtReturn
    /\ ~plan.is_none
    /\ max_expansions >= Cardinality(Reach(initial_state, game))
    /\ Cardinality(Reach(initial_state, game)) >= 10
    /\ pops = 4
    /\ frontier # <<>>


\* main() runs on: its loop is a single thread that never waits, and whoever
\* holds the game hands it to main() at some point.  For MainPlan and
\* AstarIterate weak fairness is written out, []<>~enabled \/ []<>step, with
\* the condition under which the step is enabled: MainPlan's guard, and
\* pc = "astar" for AstarIterate, which has a branch for every case.
LiveSpec ==
    /\ Spec
    /\ WF_vars(MainStart)
    /\ WF_vars(MainUsePlan \/ MainFallback \/ MainExecute \/ MainFinish)
    /\ ([]<>~(pc = "loop" /\ ~is_finished(game) /\ planned_actions = <<>>)
           \/ []<><<MainPlan>>_vars)
    /\ ([]<>(pc # "astar") \/ []<><<AstarIterate>>_vars)

\* A bound on the search states of a board: every position is unseen,
\* remembered or matched.
StateBound == 3 ^ (size * size)

\* What is left to do in main(): the cards not yet matched or remembered
\* first, then the place in the loop.
LoopRank ==
    LET left == 2 * Len(all_positions(game))
                    - (2 * Cardinality(game.matched) + Len(game.seen))
        place == IF pc = "done" THEN 0
                 ELSE IF pc = "loop" /\ is_finished(game) THEN 1
                 ELSE IF pc = "loop" /\ planned_actions # <<>> THEN 2
                 ELSE IF pc = "planned" THEN 3
                 ELSE IF pc = "astar" THEN 4 + (StateBound - pops)
                 ELSE 5 + StateBound
    IN left * (6 + StateBound) + place

\* A turn of the executor loop: apply_turn is called with pc = "loop".
LoopTurn == pc = "loop" /\ game'.moves # game.moves

\* C23 (the game always finishes): every turn the executor loop applies,
\* planned or chosen by greedy_policy with any random choices, under any
\* budget, matches a new pair or reveals a position that was not remembered,
\* so 2*|matched| + |seen| grows with every turn; every step of main()
\* lowers LoopRank, which is never negative; and the loop ends with
\* is_finished() true.
C23_GameFinishes ==
    /\ [][LoopTurn =>
            /\ \/ Cardinality(game'.matched) = Cardinality(game.matched) + 2
               \/ /\ game'.matched = game.matched
                  /\ SeenKeys(game'.seen) \ SeenKeys(game.seen) # {}
            /\ 2 * Cardinality(game'.matched) + Len(game'.seen)
                   > 2 * Cardinality(game.matched) + Len(game.seen)
            /\ game'.moves <= MaxCalls + 2 * Cardinality(game'.matched) + Len(game'.seen)]_vars
    /\ [][pc # "calls" => (LoopRank' < LoopRank /\ LoopRank' >= 0)]_vars
    /\ <>(pc = "done" /\ is_finished(game))

\* The loop has ended after five turns: the last one matched, and not every
\* turn before it did.
C23_Witness ==
    /\ pc = "done"
    /\ is_finished(game)
    /\ game.moves = 5
    /\ turn_result = <<TRUE>>

=============================================================================
